---- MODULE Spec2Model ----
(***************************************************************************)
(* mountpoint(1): see if a directory is a mountpoint.                      *)
(* A model of sys-utils/mountpoint.c: option parsing, the stat of the      *)
(* path, print_devno(), dir_to_device() and the reporting done by main().  *)
(* System calls and the libmount table are the environment: each call      *)
(* answers with a value drawn from a small set at the time of the call.    *)
(***************************************************************************)
EXTENDS Integers, Sequences, FiniteSets, TLC

\* ------------------------------------------------------------------ bounds
MaxArgs == 4        \* longest argv (without argv[0])
MaxTable == 2       \* longest mount table

\* --------------------------------------------------------------- constants
MOUNTPOINT_EXIT_NOMNT == 32
EXIT_SUCCESS == 0
EXIT_FAILURE == 1

\* ------------------------------------------------------------------- paths
\* A path is the sequence of its components below "/": <<>> is "/",
\* <<"lnk">> is "/lnk".  "/lnk" is a symbolic link to "/mnt".
NULL_PATH == <<"(null)">>
RawPaths == { <<>>, <<"lnk">> }
Targets == { <<>>, <<"mnt">> }

IsSymlink(p) == p = <<"lnk">>
LinkTarget(p) == <<"mnt">>

RECURSIVE Resolve(_, _)
Resolve(done, rest) ==
    IF rest = <<>> THEN done
    ELSE LET c == Head(rest) IN
         IF c = "." THEN Resolve(done, Tail(rest))
         ELSE IF c = ".."
              THEN Resolve(IF done = <<>> THEN <<>>
                           ELSE SubSeq(done, 1, Len(done) - 1), Tail(rest))
         ELSE IF IsSymlink(Append(done, c))
              THEN Resolve(<<>>, LinkTarget(Append(done, c)) \o Tail(rest))
         ELSE Resolve(Append(done, c), Tail(rest))

\* mnt_resolve_path(): the canonical absolute path
mnt_resolve_path(path) == Resolve(<<>>, path)

\* ----------------------------------------------------------- device numbers
DevIds == { 2049, 2050 }      \* 8:1 and 8:2
InoIds == { 2, 7 }
Modes == { "S_IFDIR", "S_IFREG", "S_IFBLK", "S_IFLNK" }

major(dev) == (dev \div 256) % 4096
minor(dev) == (dev % 256) + ((dev \div 4096) \div 256) * 256

S_ISBLK(mode) == mode = "S_IFBLK"
S_ISLNK(mode) == mode = "S_IFLNK"

\* struct stat, zeroed by the initializer of ctl
ZeroStat == [st_dev |-> 0, st_ino |-> 0, st_mode |-> "0", st_rdev |-> 0]

\* what stat()/lstat() of the path can store in ctl.st: only a block device
\* has a device number of its own, only lstat() can see a symbolic link
StatResults(nofollow) ==
    { s \in [st_dev : DevIds, st_ino : InoIds, st_mode : Modes,
             st_rdev : DevIds \cup {0}] :
        /\ S_ISBLK(s.st_mode) <=> s.st_rdev # 0
        /\ S_ISLNK(s.st_mode) => nofollow }

\* what stat("<cn>/..") can answer: failure, or the parent's device and inode
ParentStats ==
    { [ok |-> FALSE, st_dev |-> 0, st_ino |-> 0] } \cup
    [ok : {TRUE}, st_dev : DevIds, st_ino : InoIds]

\* ------------------------------------------------------------- mount table
MNT_ITER_FORWARD == 0
MNT_ITER_BACKWARD == 1

MountEntries == [target : Targets, devno : DevIds]

RECURSIVE SeqsUpTo(_, _)
SeqsUpTo(S, n) ==
    IF n = 0 THEN { <<>> }
    ELSE LET shorter == SeqsUpTo(S, n - 1) IN
         shorter \cup { Append(s, e) : s \in shorter, e \in S }

\* mnt_new_table_from_file(): NULL (ok = FALSE) or the parsed table,
\* oldest mount first
NULL_TABLE == [ok |-> FALSE, entries |-> <<>>]
MountTables ==
    { NULL_TABLE } \cup
    { [ok |-> TRUE, entries |-> e] : e \in SeqsUpTo(MountEntries, MaxTable) }

\* struct libmnt_fs * returned by a lookup: found = FALSE is NULL
NoFs == [found |-> FALSE, target |-> NULL_PATH, devno |-> 0]

\* mnt_table_find_target(): the first entry, in the direction of the
\* iterator, whose target is the canonicalized path
mnt_table_find_target(tb, path, direction) ==
    LET cn == mnt_resolve_path(path)
        hits == { i \in 1..Len(tb.entries) : tb.entries[i].target = cn }
    IN  IF hits = {} THEN NoFs
        ELSE LET i == IF direction = MNT_ITER_BACKWARD
                      THEN CHOOSE k \in hits : \A j \in hits : j <= k
                      ELSE CHOOSE k \in hits : \A j \in hits : k <= j
             IN  [found |-> TRUE, target |-> tb.entries[i].target,
                  devno |-> tb.entries[i].devno]

\* ------------------------------------------------------------------- state
VARIABLES
    argv,        \* arguments getopt_long() has not scanned yet
    positional,  \* non-option arguments, argv[optind .. argc-1] after the scan
    ctl,         \* struct mountpoint_control
    pc,          \* where main() is
    stdout,      \* lines written to standard output
    stderr,      \* lines written to standard error
    exit_code,   \* exit status, meaningful once pc = "exit"
    calls,       \* file system accesses made so far, in order
    tb,          \* what mnt_new_table_from_file() answered in dir_to_device()
    fits,        \* whether "<cn>/.." fitted in buf[PATH_MAX]
    pst,         \* what stat("<cn>/..") answered
    rc,          \* what dir_to_device() returned
    world,       \* a file system state seen by both detection strategies
    viaTable,    \* dir_to_device() on world with the mount table loaded
    viaFallback  \* dir_to_device() on world with the mount table unavailable

vars == << argv, positional, ctl, pc, stdout, stderr, exit_code, calls,
           tb, fits, pst, rc, world, viaTable, viaFallback >>

\* ------------------------------------------------------------ command line
Options == { "q", "nofollow", "d", "x", "h", "V", "?" }
OptTok(o) == [opt |-> o, path |-> NULL_PATH]
PathTok(p) == [opt |-> "", path |-> p]
Tokens == { OptTok(o) : o \in Options } \cup { PathTok(p) : p \in RawPaths }

\* struct mountpoint_control ctl = { NULL };
ZeroCtl == [path |-> NULL_PATH, dev |-> 0, st |-> ZeroStat,
            dev_devno |-> FALSE, fs_devno |-> FALSE,
            nofollow |-> FALSE, quiet |-> FALSE]

NoParent == [ok |-> FALSE, st_dev |-> 0, st_ino |-> 0]
NoResult == [rc |-> 0, dev |-> 0, calls |-> <<>>]
NoWorld == [path |-> NULL_PATH, st |-> ZeroStat, mount |-> "none",
            table |-> NULL_TABLE, pst |-> NoParent]

OutLine(text, path, dev) ==
    [text |-> text, path |-> path, major |-> major(dev), minor |-> minor(dev)]
ErrLine(text, path) == [text |-> text, path |-> path]

\* ---------------------------------------------------------- dir_to_device
\* dir_to_device(): 0 and the device in ctl->dev, or -1.  table, bufFits and
\* parent are the answers of mnt_new_table_from_file(), of the snprintf()
\* length test and of stat("<cn>/..").
\* dir_to_device() with one part of it changed; Fallback and Lookup are its
\* two branches
Fallback(c, bufFits, parent, checkParent, isMount) ==
    IF ~bufFits
    THEN [rc |-> -1, dev |-> c.dev, calls |-> <<"mountinfo">>]
    ELSE IF checkParent /\ ~parent.ok
    THEN [rc |-> -1, dev |-> c.dev, calls |-> <<"mountinfo", "stat_parent">>]
    ELSE IF isMount
    THEN [rc |-> 0, dev |-> c.st.st_dev, calls |-> <<"mountinfo", "stat_parent">>]
    ELSE [rc |-> -1, dev |-> c.dev, calls |-> <<"mountinfo", "stat_parent">>]

Lookup(c, table, direction, assign) ==
    LET fs == mnt_table_find_target(table, c.path, direction) IN
    IF fs.found /\ fs.target # NULL_PATH
    THEN [rc |-> 0, dev |-> IF assign THEN fs.devno ELSE c.dev,
          calls |-> <<"mountinfo">>]
    ELSE [rc |-> -1, dev |-> c.dev, calls |-> <<"mountinfo">>]

BoundaryTest(c, parent) ==
    c.st.st_dev # parent.st_dev \/ c.st.st_ino = parent.st_ino

\* the result of stat("<cn>/..") is not tested
dir_to_device_UncheckedParent(c, table, bufFits, parent) ==
    IF ~table.ok
    THEN Fallback(c, bufFits, parent, FALSE, BoundaryTest(c, parent))
    ELSE Lookup(c, table, MNT_ITER_BACKWARD, TRUE)

\* the table is searched from its oldest entry
dir_to_device_Forward(c, table, bufFits, parent) ==
    IF ~table.ok
    THEN Fallback(c, bufFits, parent, TRUE, BoundaryTest(c, parent))
    ELSE Lookup(c, table, MNT_ITER_FORWARD, TRUE)

\* the fallback wants a device boundary and an equal inode
dir_to_device_BothTests(c, table, bufFits, parent) ==
    IF ~table.ok
    THEN Fallback(c, bufFits, parent, TRUE,
                  c.st.st_dev # parent.st_dev /\ c.st.st_ino = parent.st_ino)
    ELSE Lookup(c, table, MNT_ITER_BACKWARD, TRUE)

\* ctl->dev is not assigned from the entry found
dir_to_device_DevNotSet(c, table, bufFits, parent) ==
    IF ~table.ok
    THEN Fallback(c, bufFits, parent, TRUE, BoundaryTest(c, parent))
    ELSE Lookup(c, table, MNT_ITER_BACKWARD, FALSE)

\* the fallback compares the devices only
dir_to_device_DeviceOnly(c, table, bufFits, parent) ==
    IF ~table.ok
    THEN Fallback(c, bufFits, parent, TRUE, c.st.st_dev # parent.st_dev)
    ELSE Lookup(c, table, MNT_ITER_BACKWARD, TRUE)

dir_to_device(c, table, bufFits, parent) ==
    IF ~table.ok
    THEN IF ~bufFits
         THEN [rc |-> -1, dev |-> c.dev, calls |-> <<"mountinfo">>]
         ELSE IF ~parent.ok
         THEN [rc |-> -1, dev |-> c.dev, calls |-> <<"mountinfo", "stat_parent">>]
         ELSE IF c.st.st_dev # parent.st_dev \/ c.st.st_ino = parent.st_ino
         THEN [rc |-> 0, dev |-> c.st.st_dev,
               calls |-> <<"mountinfo", "stat_parent">>]
         ELSE [rc |-> -1, dev |-> c.dev, calls |-> <<"mountinfo", "stat_parent">>]
    ELSE LET fs == mnt_table_find_target(table, c.path, MNT_ITER_BACKWARD) IN
         IF fs.found /\ fs.target # NULL_PATH
         THEN [rc |-> 0, dev |-> fs.devno, calls |-> <<"mountinfo">>]
         ELSE [rc |-> -1, dev |-> c.dev, calls |-> <<"mountinfo">>]

\* ------------------------------------------------------------ print_devno
print_devno(c) ==
    IF ~S_ISBLK(c.st.st_mode)
    THEN [rc |-> -1, stdout |-> <<>>,
          stderr |-> IF ~c.quiet
                     THEN << ErrLine("not a block device", c.path) >>
                     ELSE <<>>]
    ELSE [rc |-> 0, stdout |-> << OutLine("devno", c.path, c.st.st_rdev) >>,
          stderr |-> <<>>]

\* ------------------------------------------------------------------- main
\* the exclusive options are not rejected
main_usage_NoExclusion(c, args) ==
    IF Len(args) # 1 THEN "bad usage" ELSE "ok"

\* main(), after the options: the argument count and the exclusive options
main_usage(c, args) ==
    IF Len(args) # 1 THEN "bad usage"
    ELSE IF c.nofollow /\ c.dev_devno THEN "mutually exclusive"
    ELSE "ok"

\* a failed stat() is reported as "not a mountpoint" in quiet mode
main_stat_failed_Quiet32(c) ==
    [exit_code |-> IF c.quiet THEN MOUNTPOINT_EXIT_NOMNT ELSE EXIT_FAILURE,
     stderr |-> IF ~c.quiet THEN << ErrLine("stat failed", c.path) >> ELSE <<>>]

\* main(), when stat()/lstat() of the path failed
main_stat_failed(c) ==
    [exit_code |-> EXIT_FAILURE,
     stderr |-> IF ~c.quiet THEN << ErrLine("stat failed", c.path) >> ELSE <<>>]

\* something that is no block device is a generic failure
main_devno_Failure(c) ==
    LET r == print_devno(c) IN
    [exit_code |-> IF r.rc # 0 THEN EXIT_FAILURE ELSE EXIT_SUCCESS,
     stdout |-> r.stdout, stderr |-> r.stderr]

\* main(), with --devno
main_devno(c) ==
    LET r == print_devno(c) IN
    [exit_code |-> IF r.rc # 0 THEN MOUNTPOINT_EXIT_NOMNT ELSE EXIT_SUCCESS,
     stdout |-> r.stdout, stderr |-> r.stderr]

\* a symbolic link seen by lstat() is handed to dir_to_device() as well
main_mountpoint_NoShortcut(c, table, bufFits, parent) ==
    LET r == dir_to_device(c, table, bufFits, parent)
    IN  IF r.rc # 0
        THEN [exit_code |-> MOUNTPOINT_EXIT_NOMNT,
              stdout |-> IF ~c.quiet
                         THEN << OutLine("is not a mountpoint", c.path, 0) >>
                         ELSE <<>>,
              consulted |-> TRUE, rc |-> r.rc, dev |-> r.dev, calls |-> r.calls]
        ELSE [exit_code |-> EXIT_SUCCESS,
              stdout |-> IF c.fs_devno
                         THEN << OutLine("devno", c.path, r.dev) >>
                         ELSE IF ~c.quiet
                         THEN << OutLine("is a mountpoint", c.path, 0) >>
                         ELSE <<>>,
              consulted |-> TRUE, rc |-> r.rc, dev |-> r.dev, calls |-> r.calls]

\* main(), without --devno: the decision and its report
main_mountpoint(c, table, bufFits, parent) ==
    LET shortcut == c.nofollow /\ S_ISLNK(c.st.st_mode)
        r == dir_to_device(c, table, bufFits, parent)
    IN  IF shortcut \/ r.rc # 0
        THEN [exit_code |-> MOUNTPOINT_EXIT_NOMNT,
              stdout |-> IF ~c.quiet
                         THEN << OutLine("is not a mountpoint", c.path, 0) >>
                         ELSE <<>>,
              consulted |-> ~shortcut,
              rc |-> IF shortcut THEN 0 ELSE r.rc,
              dev |-> IF shortcut THEN c.dev ELSE r.dev,
              calls |-> IF shortcut THEN <<>> ELSE r.calls]
        ELSE [exit_code |-> EXIT_SUCCESS,
              stdout |-> IF c.fs_devno
                         THEN << OutLine("devno", c.path, r.dev) >>
                         ELSE IF ~c.quiet
                         THEN << OutLine("is a mountpoint", c.path, 0) >>
                         ELSE <<>>,
              consulted |-> TRUE, rc |-> r.rc, dev |-> r.dev, calls |-> r.calls]

\* the answers the environment can give to one call of dir_to_device()
DetectorAnswers ==
    { [tb |-> t, fits |-> TRUE, pst |-> NoParent] : t \in MountTables \ {NULL_TABLE} }
    \cup { [tb |-> NULL_TABLE, fits |-> FALSE, pst |-> NoParent] }
    \cup { [tb |-> NULL_TABLE, fits |-> TRUE, pst |-> p] : p \in ParentStats }

\* ----------------------------------------------------------------- actions
Init ==
    /\ argv \in SeqsUpTo(Tokens, MaxArgs)
    /\ positional = <<>>
    /\ ctl = ZeroCtl
    /\ pc = "getopt"
    /\ stdout = <<>>
    /\ stderr = <<>>
    /\ exit_code = EXIT_SUCCESS
    /\ calls = <<>>
    /\ tb = NULL_TABLE
    /\ fits = TRUE
    /\ pst = NoParent
    /\ rc = 0
    /\ world = NoWorld
    /\ viaTable = NoResult
    /\ viaFallback = NoResult

Scanning(o) == pc = "getopt" /\ argv # <<>> /\ Head(argv).opt = o

SetFlag(c) ==
    /\ ctl' = c
    /\ argv' = Tail(argv)
    /\ UNCHANGED << positional, pc, stdout, stderr, exit_code, calls,
                    tb, fits, pst, rc, world, viaTable, viaFallback >>

Exit(code, out, err) ==
    /\ pc' = "exit"
    /\ exit_code' = code
    /\ stdout' = stdout \o out
    /\ stderr' = stderr \o err

\* case 'q'
OptQuiet == Scanning("q") /\ SetFlag([ctl EXCEPT !.quiet = TRUE])

\* case OPT_NOFOLLOW
OptNofollow == Scanning("nofollow") /\ SetFlag([ctl EXCEPT !.nofollow = TRUE])

\* case 'd'
OptFsDevno == Scanning("d") /\ SetFlag([ctl EXCEPT !.fs_devno = TRUE])

\* case 'x'
OptDevno == Scanning("x") /\ SetFlag([ctl EXCEPT !.dev_devno = TRUE])

\* case 'h': usage() writes the help text to stdout and exits
OptHelp ==
    /\ Scanning("h")
    /\ Exit(EXIT_SUCCESS, << OutLine("usage", NULL_PATH, 0) >>, <<>>)
    /\ UNCHANGED << argv, positional, ctl, calls, tb, fits, pst, rc,
                    world, viaTable, viaFallback >>

\* case 'V': print_version()
OptVersion ==
    /\ Scanning("V")
    /\ Exit(EXIT_SUCCESS, << OutLine("version", NULL_PATH, 0) >>, <<>>)
    /\ UNCHANGED << argv, positional, ctl, calls, tb, fits, pst, rc,
                    world, viaTable, viaFallback >>

\* default: errtryhelp(EXIT_FAILURE)
OptUnknown ==
    /\ Scanning("?")
    /\ Exit(EXIT_FAILURE, <<>>, << ErrLine("try --help", NULL_PATH) >>)
    /\ UNCHANGED << argv, positional, ctl, calls, tb, fits, pst, rc,
                    world, viaTable, viaFallback >>

\* getopt_long() moves a non-option argument behind the options
NonOption ==
    /\ Scanning("")
    /\ positional' = Append(positional, Head(argv).path)
    /\ argv' = Tail(argv)
    /\ UNCHANGED << ctl, pc, stdout, stderr, exit_code, calls,
                    tb, fits, pst, rc, world, viaTable, viaFallback >>

\* getopt_long() returned -1: optind + 1 != argc, --devno with --nofollow
CheckUsage ==
    /\ pc = "getopt"
    /\ argv = <<>>
    /\ LET u == main_usage(ctl, positional) IN
       IF u = "ok"
       THEN /\ ctl' = [ctl EXCEPT !.path = positional[1]]
            /\ pc' = "stat"
            /\ UNCHANGED << stdout, stderr, exit_code >>
       ELSE /\ Exit(EXIT_FAILURE, <<>>, << ErrLine(u, NULL_PATH) >>)
            /\ UNCHANGED ctl
    /\ UNCHANGED << argv, positional, calls, tb, fits, pst, rc,
                    world, viaTable, viaFallback >>

\* c = ctl.nofollow ? lstat(ctl.path, &ctl.st) : stat(ctl.path, &ctl.st)
StatFails ==
    /\ pc = "stat"
    /\ calls' = Append(calls, IF ctl.nofollow THEN "lstat" ELSE "stat")
    /\ LET r == main_stat_failed(ctl) IN Exit(r.exit_code, <<>>, r.stderr)
    /\ UNCHANGED << argv, positional, ctl, tb, fits, pst, rc,
                    world, viaTable, viaFallback >>

StatSucceeds ==
    /\ pc = "stat"
    /\ calls' = Append(calls, IF ctl.nofollow THEN "lstat" ELSE "stat")
    /\ \E s \in StatResults(ctl.nofollow) : ctl' = [ctl EXCEPT !.st = s]
    /\ pc' = "classify"
    /\ UNCHANGED << argv, positional, stdout, stderr, exit_code, tb, fits, pst,
                    rc, world, viaTable, viaFallback >>

\* if (ctl.dev_devno) return print_devno(&ctl) ? ... : ...
Devno ==
    /\ pc = "classify"
    /\ ctl.dev_devno
    /\ LET r == main_devno(ctl) IN Exit(r.exit_code, r.stdout, r.stderr)
    /\ UNCHANGED << argv, positional, ctl, calls, tb, fits, pst, rc,
                    world, viaTable, viaFallback >>

\* the rest of main(): the decision, its report and the exit status
Mountpoint ==
    /\ pc = "classify"
    /\ ~ctl.dev_devno
    /\ \E a \in DetectorAnswers :
         LET r == main_mountpoint(ctl, a.tb, a.fits, a.pst)
             asked(what) == \E i \in 1..Len(r.calls) : r.calls[i] = what
         IN  /\ Exit(r.exit_code, r.stdout, <<>>)
             /\ ctl' = [ctl EXCEPT !.dev = r.dev]
             /\ calls' = calls \o r.calls
             /\ rc' = r.rc
             /\ tb' = IF asked("mountinfo") THEN a.tb ELSE tb
             /\ fits' = IF asked("mountinfo") THEN a.fits ELSE fits
             /\ pst' = IF asked("stat_parent") THEN a.pst ELSE pst
    /\ UNCHANGED << argv, positional, world, viaTable, viaFallback >>

Next ==
    \/ OptQuiet \/ OptNofollow \/ OptFsDevno \/ OptDevno
    \/ OptHelp \/ OptVersion \/ OptUnknown \/ NonOption
    \/ CheckUsage \/ StatFails \/ StatSucceeds \/ Devno \/ Mountpoint

Spec == Init /\ [][Next]_vars

\* ------------------------------------------- the two strategies, compared
\* A file system state as both strategies see it: the path, its stat, what
\* is mounted on it, the mount table and the stat of its parent.
\*   "none"      nothing is mounted on the path
\*   "ordinary"  a file system of another device is mounted on the directory
\*   "bind"      a bind mount
\*   "root"      the path is "/", a mount target and its own parent
MountKinds == { "none", "ordinary", "bind", "root" }

LastMatch(entries, cn) ==
    LET hits == { i \in 1..Len(entries) : entries[i].target = cn }
    IN  IF hits = {} THEN 0 ELSE CHOOSE k \in hits : \A j \in hits : j <= k

Consistent(w) ==
    LET cn == mnt_resolve_path(w.path)
        last == LastMatch(w.table.entries, cn)
    IN  /\ (last # 0) <=> (w.mount # "none")
        /\ last # 0 => w.table.entries[last].devno = w.st.st_dev
        /\ (w.mount = "root") <=> (cn = <<>>)
        /\ w.mount \in { "ordinary", "root" } => w.st.st_mode = "S_IFDIR"
        /\ w.st.st_mode # "S_IFDIR" => ~w.pst.ok
        /\ w.pst.ok =>
             CASE w.mount = "none" -> /\ w.st.st_dev = w.pst.st_dev
                                      /\ w.st.st_ino # w.pst.st_ino
               [] w.mount = "ordinary" -> w.st.st_dev # w.pst.st_dev
               [] w.mount = "root" -> /\ w.st.st_dev = w.pst.st_dev
                                      /\ w.st.st_ino = w.pst.st_ino
               [] OTHER -> TRUE

Worlds ==
    { w \in [path : RawPaths, st : StatResults(FALSE), mount : MountKinds,
             table : MountTables \ {NULL_TABLE}, pst : ParentStats] :
        Consistent(w) }

WorldCtl(w) == [ZeroCtl EXCEPT !.path = w.path, !.st = w.st]

InitEquiv ==
    /\ world \in Worlds
    /\ viaTable = NoResult
    /\ viaFallback = NoResult
    /\ pc = "both"
    /\ argv = <<>>
    /\ positional = <<>>
    /\ ctl = ZeroCtl
    /\ stdout = <<>>
    /\ stderr = <<>>
    /\ exit_code = EXIT_SUCCESS
    /\ calls = <<>>
    /\ tb = NULL_TABLE
    /\ fits = TRUE
    /\ pst = NoParent
    /\ rc = 0

\* dir_to_device() with /proc/self/mountinfo readable
DetectViaTable ==
    /\ pc \in { "both", "table" }
    /\ viaTable' = dir_to_device(WorldCtl(world), world.table, TRUE, world.pst)
    /\ pc' = IF pc = "both" THEN "fallback" ELSE "compared"
    /\ UNCHANGED << argv, positional, ctl, stdout, stderr, exit_code, calls,
                    tb, fits, pst, rc, world, viaFallback >>

\* dir_to_device() on the same state with mnt_new_table_from_file() failing
DetectViaFallback ==
    /\ pc \in { "both", "fallback" }
    /\ viaFallback' = dir_to_device(WorldCtl(world), NULL_TABLE, TRUE, world.pst)
    /\ pc' = IF pc = "both" THEN "table" ELSE "compared"
    /\ UNCHANGED << argv, positional, ctl, stdout, stderr, exit_code, calls,
                    tb, fits, pst, rc, world, viaTable >>

NextEquiv == DetectViaTable \/ DetectViaFallback

SpecEquiv == InitEquiv /\ [][NextEquiv]_vars

\* ------------------------------------------------------------- properties
Exited == pc = "exit"
Printed(text) == \E i \in 1..Len(stdout) : stdout[i].text = text
Asked(what) == \E i \in 1..Len(calls) : calls[i] = what
StatDone == Asked("stat") \/ Asked("lstat")
StatFailed == StatDone /\ ctl.st = ZeroStat
ParentStatFailed == Asked("stat_parent") /\ ~pst.ok
NotMountpointReport ==
    IF ctl.quiet THEN <<>> ELSE << OutLine("is not a mountpoint", ctl.path, 0) >>
UsageError == Len(positional) # 1 \/ (ctl.nofollow /\ ctl.dev_devno)
LnkShortcut == ctl.nofollow /\ S_ISLNK(ctl.st.st_mode)

\* C1, as stated: when the mount table cannot be loaded and the stat of the
\* parent directory fails, the run exits with EXIT_FAILURE, not with 32 and
\* not with "<path> is not a mountpoint".
C1_ParentStatFailureIsGenericFailure ==
    (Exited /\ ParentStatFailed) =>
        /\ exit_code = EXIT_FAILURE
        /\ exit_code # MOUNTPOINT_EXIT_NOMNT
        /\ ~Printed("is not a mountpoint")

\* C1, amended: when the mount table cannot be loaded and the stat of the
\* parent directory fails, dir_to_device() returns -1 and the run ends like
\* any negative decision: exit status 32, "<path> is not a mountpoint" on
\* stdout unless quiet, nothing on stderr.
C1_ParentStatFailureIsNotMountpoint ==
    (Exited /\ ParentStatFailed) =>
        /\ ~tb.ok
        /\ rc = -1
        /\ exit_code = MOUNTPOINT_EXIT_NOMNT
        /\ stdout = NotMountpointReport
        /\ stderr = <<>>

C1_Witness ==
    Exited /\ ParentStatFailed /\ ~ctl.quiet /\ exit_code = MOUNTPOINT_EXIT_NOMNT

\* C2: with -q/--quiet set, whatever the other options and the outcome,
\* stdout carries no "is a mountpoint" / "is not a mountpoint" line and no
\* "<major>:<minor>" pair.
C2_QuietWritesNoResult ==
    (Exited /\ ctl.quiet) =>
        /\ ~Printed("is a mountpoint")
        /\ ~Printed("is not a mountpoint")
        /\ ~Printed("devno")

\* C3: a wrong number of path arguments, or --devno with --nofollow, ends the
\* run with EXIT_FAILURE before any stat/lstat and any load of the mount
\* table.
C3_UsageErrorBeforeAccess ==
    (argv = <<>> /\ UsageError) =>
        /\ pc \in { "getopt", "exit" }
        /\ calls = <<>>
        /\ stdout = <<>>
        /\ Exited => exit_code = EXIT_FAILURE

C3_Witness ==
    /\ Exited /\ argv = <<>> /\ Len(positional) = 1
    /\ ctl.nofollow /\ ctl.dev_devno /\ exit_code = EXIT_FAILURE

\* C4: with --nofollow, a path that lstat() shows as a symbolic link is
\* "not a mountpoint" (32) whatever the mount table and -d: dir_to_device()
\* is not called (no table load, no parent stat) and no device is printed.
C4_NofollowSymlinkIsNotMountpoint ==
    (Exited /\ LnkShortcut) =>
        /\ exit_code = MOUNTPOINT_EXIT_NOMNT
        /\ calls = << "lstat" >>
        /\ ~Printed("devno")
        /\ stdout = NotMountpointReport
        /\ ctl.dev = 0

C4_Witness ==
    Exited /\ LnkShortcut /\ ctl.fs_devno /\ exit_code = MOUNTPOINT_EXIT_NOMNT

\* C5: when the mount table loads, the table alone decides and the last
\* matching entry wins: with an entry whose target is the canonicalized
\* path, the decision is positive with the device of the last such entry;
\* with none it is negative; the parent is never stat-ed.
C5_LastMatchingEntryWins ==
    (Exited /\ Asked("mountinfo") /\ tb.ok) =>
        LET last == LastMatch(tb.entries, mnt_resolve_path(ctl.path)) IN
        /\ ~Asked("stat_parent")
        /\ IF last # 0
           THEN /\ rc = 0
                /\ ctl.dev = tb.entries[last].devno
                /\ exit_code = EXIT_SUCCESS
           ELSE /\ rc = -1
                /\ exit_code = MOUNTPOINT_EXIT_NOMNT

C5_Witness ==
    /\ Exited /\ Asked("mountinfo") /\ tb.ok /\ Len(tb.entries) >= 2
    /\ tb.entries[1].target = mnt_resolve_path(ctl.path)
    /\ tb.entries[2].target = mnt_resolve_path(ctl.path)
    /\ tb.entries[1].devno # tb.entries[2].devno
    /\ ctl.path # mnt_resolve_path(ctl.path)
    /\ ctl.dev = tb.entries[2].devno

Compared == pc = "compared"

\* C6, as stated: for every path that is not a bind mount, regular files and
\* paths whose parent cannot be stat-ed included, the decision with the
\* mount table equals the decision without it.
C6_StrategiesAgree ==
    (Compared /\ world.mount # "bind") => viaTable.rc = viaFallback.rc

\* C6, amended: for a path that is not a bind mount the two decisions are
\* equal when the parent can be stat-ed or nothing is mounted on the path
\* (as for a regular file); when the stat of the parent fails the fallback
\* decides "not a mountpoint" whatever the table says.
C6_StrategiesAgreeWithParent ==
    /\ (Compared /\ world.mount # "bind" /\ (world.pst.ok \/ world.mount = "none"))
          => viaTable.rc = viaFallback.rc
    /\ (Compared /\ ~world.pst.ok) => viaFallback.rc = -1

C6_Witness ==
    /\ Compared /\ world.mount = "ordinary" /\ world.pst.ok
    /\ viaTable.rc = 0 /\ viaFallback.rc = 0

C8_StatFailureIsGenericFailure ==
    (Exited /\ StatFailed) =>
        /\ exit_code = EXIT_FAILURE
        /\ exit_code # MOUNTPOINT_EXIT_NOMNT
        /\ exit_code # EXIT_SUCCESS
        /\ calls = << IF ctl.nofollow THEN "lstat" ELSE "stat" >>
        /\ stdout = <<>>
        /\ stderr = IF ctl.quiet THEN <<>>
                    ELSE << ErrLine("stat failed", ctl.path) >>

C8_Witness ==
    Exited /\ StatFailed /\ ctl.quiet /\ ctl.nofollow /\ exit_code = EXIT_FAILURE

\* C9: a device printed for -d is the one dir_to_device() stored in ctl.dev
\* on returning 0 in this run: the devno of the matched entry with the table,
\* the st_dev of the path without it; a negative decision with -d prints
\* "<path> is not a mountpoint" unless quiet, exits with 32 and prints no
\* device.
C9_FsDevnoFollowsDecision ==
    /\ (Exited /\ ~ctl.dev_devno /\ Printed("devno")) =>
          /\ ctl.fs_devno
          /\ rc = 0
          /\ Asked("mountinfo")
          /\ exit_code = EXIT_SUCCESS
          /\ ctl.dev # 0
          /\ ctl.dev = IF tb.ok
                       THEN tb.entries[LastMatch(tb.entries,
                                       mnt_resolve_path(ctl.path))].devno
                       ELSE ctl.st.st_dev
          /\ stdout = << [text |-> "devno", path |-> ctl.path,
                          major |-> major(ctl.dev), minor |-> minor(ctl.dev)] >>
    /\ (Exited /\ ctl.fs_devno /\ ~ctl.dev_devno /\ StatDone /\ ~StatFailed
          /\ (LnkShortcut \/ rc # 0)) =>
          /\ exit_code = MOUNTPOINT_EXIT_NOMNT
          /\ stdout = NotMountpointReport

C9_Witness ==
    /\ Exited /\ ctl.fs_devno /\ ~ctl.dev_devno /\ Printed("devno")
    /\ tb.ok /\ ctl.dev # ctl.st.st_dev /\ ctl.quiet

\* C10: in the fallback with a parent that can be stat-ed the decision is
\* positive exactly when the device of the path differs from the parent's
\* or the inode of the path equals the parent's, and then ctl.dev is the
\* device of the path: "/" (same device, same inode) is a mountpoint, a bind
\* mount (same device, other inode) is not.
C10_FallbackRule ==
    (Exited /\ Asked("stat_parent") /\ pst.ok) =>
        /\ ~tb.ok
        /\ (rc = 0) <=> (ctl.st.st_dev # pst.st_dev \/ ctl.st.st_ino = pst.st_ino)
        /\ rc # 0 => rc = -1 /\ exit_code = MOUNTPOINT_EXIT_NOMNT /\ ctl.dev = 0
        /\ rc = 0 => ctl.dev = ctl.st.st_dev /\ exit_code = EXIT_SUCCESS
        /\ (ctl.st.st_dev = pst.st_dev /\ ctl.st.st_ino = pst.st_ino) => rc = 0
        /\ (ctl.st.st_dev = pst.st_dev /\ ctl.st.st_ino # pst.st_ino) => rc = -1

C10_Witness ==
    /\ Exited /\ Asked("stat_parent") /\ pst.ok /\ ctl.path = <<>>
    /\ ctl.st.st_dev = pst.st_dev /\ ctl.st.st_ino = pst.st_ino
    /\ rc = 0 /\ exit_code = EXIT_SUCCESS

====
